---- MODULE Spec2Model ----
(***************************************************************************)
(* routy: the route tree (buildRouteTree / findRoute over RootNode,        *)
(* LiteralNode and ParamNode) and the Router facade (middleware, the       *)
(* per-method registration, route).                                        *)
(*                                                                         *)
(* A string is the sequence of its characters, so that split, join and the *)
(* ParamNode regular expression are computed and not assumed.  A node of   *)
(* the tree is named by the raw texts on the way from the root to it:      *)
(* buildRouteTree reuses the child whose raw text equals the segment, so   *)
(* the raw texts of one node's children are pairwise different.            *)
(***************************************************************************)
EXTENDS Integers, Sequences, FiniteSets, TLC

\* ------------------------------------------------------------------------
\* Bounds of the model
\* ------------------------------------------------------------------------

\* Number of buildRouteTree calls of one run (tree specification).
MaxRegs == 3

\* Router specification: number of route registrations, of middleware()
\* calls, of per-route middleware of one registration, and of route() calls.
MaxRoutes == 1

MaxGlobal == 2

MaxRouteMw == 2

MaxRequests == 1

\* Serving specification: number of route() calls on the configured router.
MaxServe == 2

\* ------------------------------------------------------------------------
\* Strings
\* ------------------------------------------------------------------------

\* \w of the regular expression, restricted to the letters the model uses.
WordChars == {"a", "b", "x", "y", "z"}

\* The characters (\?|\*|\+) of the regular expression.
ModifierChars == {"?", "*", "+"}

\* ModifierMap of route.ts; "" is the absent suffix.
ModifierMap(suffix) ==
    CASE suffix = "+" -> "many"
      [] suffix = ""  -> "singular"
      [] suffix = "?" -> "optional"
      [] suffix = "*" -> "any"

RECURSIVE SplitFrom(_, _, _)
\* String.prototype.split("/"): the pieces between the slashes, empty ones
\* included ("/" gives two empty pieces, "" gives one).
SplitFrom(s, i, cur) ==
    IF i > Len(s) THEN <<cur>>
    ELSE IF s[i] = "/" THEN <<cur>> \o SplitFrom(s, i + 1, <<>>)
    ELSE SplitFrom(s, i + 1, Append(cur, s[i]))

Split(s) == SplitFrom(s, 1, <<>>)

\* path.split("/").filter((part) => part.length > 0)
PathParts(path) == SelectSeq(Split(path), LAMBDA part : Len(part) > 0)

RECURSIVE Join(_)
\* Array.prototype.join("/")
Join(parts) ==
    IF Len(parts) = 0 THEN <<>>
    ELSE IF Len(parts) = 1 THEN parts[1]
    ELSE parts[1] \o <<"/">> \o Join(Tail(parts))

\* ------------------------------------------------------------------------
\* Route nodes
\* ------------------------------------------------------------------------

\* The HTTP methods of the model (two of the nine of type Method).
Methods == {"get", "post"}

\* An empty Map / an empty params object.
EmptyMap == << >>

\* { ...a, ...b }, and Map.set seen as a one-entry spread.
Spread(a, b) ==
    [k \in (DOMAIN a) \cup (DOMAIN b) |-> IF k \in DOMAIN b THEN b[k] ELSE a[k]]

\* /^:(\w+)(\?|\*|\+)?/ matches: a colon and at least one word character.
\* The expression is not anchored at the end of the text.
IsParam(text) == Len(text) >= 2 /\ text[1] = ":" /\ text[2] \in WordChars

RECURSIVE NameEnd(_, _)
\* Index of the last character of the greedy (\w+) group that starts at 2.
NameEnd(text, i) ==
    IF i < Len(text) /\ text[i + 1] \in WordChars THEN NameEnd(text, i + 1) ELSE i

\* match[1]
ParamName(text) == SubSeq(text, 2, NameEnd(text, 2))

\* ModifierMap[match[2] || ""]
ParamModifier(text) ==
    LET e == NameEnd(text, 2)
    IN  ModifierMap(IF e < Len(text) /\ text[e + 1] \in ModifierChars
                    THEN text[e + 1] ELSE "")

\* ParamNode.parse(part) ?? new LiteralNode(part): the class of the node that
\* a segment text makes.
IsParamNode(raw) == IsParam(raw)

IsLiteralNode(raw) == ~IsParam(raw)

NoMatch == [ok |-> FALSE, taken |-> 0, params |-> EmptyMap]

\* LiteralNode.matchParts
LiteralMatchParts(literal, parts) ==
    IF Len(parts) > 0 /\ parts[1] = literal
    THEN [ok |-> TRUE, taken |-> 1, params |-> EmptyMap]
    ELSE NoMatch

\* ParamNode.matchParts with an optional parameter that takes no segment.
ParamMatchPartsOptionalTakesNone(name, modifier, parts) ==
    IF modifier = "singular" /\ Len(parts) > 0
    THEN [ok |-> TRUE, taken |-> 1, params |-> (name :> parts[1])]
    ELSE IF modifier = "optional"
    THEN [ok |-> TRUE, taken |-> 0,
          params |-> (name :> (IF Len(parts) > 0 THEN parts[1] ELSE <<>>))]
    ELSE IF modifier = "many" /\ Len(parts) > 0
    THEN [ok |-> TRUE, taken |-> Len(parts), params |-> (name :> Join(parts))]
    ELSE IF modifier = "any"
    THEN [ok |-> TRUE, taken |-> Len(parts), params |-> (name :> Join(parts))]
    ELSE NoMatch

\* ParamNode.matchParts with a many parameter that takes one segment only.
ParamMatchPartsManyTakesOne(name, modifier, parts) ==
    IF modifier = "singular" /\ Len(parts) > 0
    THEN [ok |-> TRUE, taken |-> 1, params |-> (name :> parts[1])]
    ELSE IF modifier = "optional"
    THEN [ok |-> TRUE,
          taken |-> IF Len(parts) > 0 THEN 1 ELSE 0,
          params |-> (name :> (IF Len(parts) > 0 THEN parts[1] ELSE <<>>))]
    ELSE IF modifier = "many" /\ Len(parts) > 0
    THEN [ok |-> TRUE, taken |-> 1, params |-> (name :> parts[1])]
    ELSE IF modifier = "any"
    THEN [ok |-> TRUE, taken |-> Len(parts), params |-> (name :> Join(parts))]
    ELSE NoMatch

\* ParamNode.matchParts
ParamMatchParts(name, modifier, parts) ==
    IF modifier = "singular" /\ Len(parts) > 0
    THEN [ok |-> TRUE, taken |-> 1, params |-> (name :> parts[1])]
    ELSE IF modifier = "optional"
    THEN [ok |-> TRUE,
          taken |-> IF Len(parts) > 0 THEN 1 ELSE 0,
          params |-> (name :> (IF Len(parts) > 0 THEN parts[1] ELSE <<>>))]
    ELSE IF modifier = "many" /\ Len(parts) > 0
    THEN [ok |-> TRUE, taken |-> Len(parts), params |-> (name :> Join(parts))]
    ELSE IF modifier = "any"
    THEN [ok |-> TRUE, taken |-> Len(parts), params |-> (name :> Join(parts))]
    ELSE NoMatch

\* child.matchParts(subslice), dispatched on the class of the child.
matchParts(raw, parts) ==
    IF IsParamNode(raw)
    THEN ParamMatchParts(ParamName(raw), ParamModifier(raw), parts)
    ELSE LiteralMatchParts(raw, parts)

\* ------------------------------------------------------------------------
\* children.sort((a, _) => a instanceof LiteralNode ? -1 : 1)
\*
\* The comparator looks at its first argument only, so it is not a
\* consistent order and the result is the one the engine's algorithm
\* produces.  Deno runs V8, whose Array.prototype.sort is TimSort; below the
\* minimum run length (64) it is one CountAndMakeRun followed by one
\* BinaryInsertionSort.
\* ------------------------------------------------------------------------

\* The comparator of buildRouteTree.
Compare(a, b) == IF IsLiteralNode(a) THEN -1 ELSE 1

RECURSIVE Reverse(_)
Reverse(s) == IF Len(s) = 0 THEN <<>> ELSE Append(Reverse(Tail(s)), s[1])

RECURSIVE RunEnd(_, _, _)
\* CountAndMakeRun: the run that starts at 1 reaches idx - 1; extend it while
\* the order of (s[idx], s[idx - 1]) agrees with the direction.
RunEnd(s, idx, isDescending) ==
    IF idx > Len(s) THEN Len(s)
    ELSE LET order == Compare(s[idx], s[idx - 1])
         IN  IF (isDescending /\ order >= 0) \/ (~isDescending /\ order < 0)
             THEN idx - 1
             ELSE RunEnd(s, idx + 1, isDescending)

RECURSIVE InsertionPoint(_, _, _, _)
\* The binary search of BinaryInsertionSort.
InsertionPoint(s, pivot, left, right) ==
    IF left >= right THEN left
    ELSE LET mid == left + ((right - left) \div 2)
         IN  IF Compare(pivot, s[mid]) < 0
             THEN InsertionPoint(s, pivot, left, mid)
             ELSE InsertionPoint(s, pivot, mid + 1, right)

RECURSIVE BinaryInsertionSort(_, _)
\* s[1 .. start - 1] is the sorted run; insert s[start], s[start + 1], ...
BinaryInsertionSort(s, start) ==
    IF start > Len(s) THEN s
    ELSE LET pivot == s[start]
             at    == InsertionPoint(s, pivot, 1, start)
             moved == SubSeq(s, 1, at - 1) \o <<pivot>> \o SubSeq(s, at, start - 1)
                      \o SubSeq(s, start + 1, Len(s))
         IN  BinaryInsertionSort(moved, start + 1)

SortChildren(s) ==
    IF Len(s) < 2 THEN s
    ELSE LET isDescending == Compare(s[2], s[1]) < 0
             runLength    == RunEnd(s, 3, isDescending)
             run          == SubSeq(s, 1, runLength)
             made         == (IF isDescending THEN Reverse(run) ELSE run)
                             \o SubSeq(s, runLength + 1, Len(s))
         IN  BinaryInsertionSort(made, runLength + 1)

\* ------------------------------------------------------------------------
\* buildRouteTree
\* ------------------------------------------------------------------------

\* The node the RootNode constructor makes.
RootId == << >>

Range(s) == {s[k] : k \in DOMAIN s}

\* child.hasHandlers
hasHandlers(t, node) == DOMAIN t.handlers[node] # {}

\* handlers.set(method, handler) on a node
SetHandler(t, node, method, handler) ==
    [t EXCEPT !.handlers[node] = Spread(@, method :> handler)]

\* current.children.push(newChild) followed by the sort; the new node starts
\* with no children and no handlers.
PushChild(t, current, raw) ==
    LET child == Append(current, raw)
    IN  [children |-> [n \in (DOMAIN t.children) \cup {child} |->
                          IF n = child THEN <<>>
                          ELSE IF n = current
                               THEN SortChildren(Append(t.children[n], raw))
                               ELSE t.children[n]],
         handlers |-> [n \in (DOMAIN t.handlers) \cup {child} |->
                          IF n = child THEN EmptyMap ELSE t.handlers[n]]]

Threw(t, what) == [children |-> t.children, handlers |-> t.handlers, threw |-> what]

\* The modifier check on a new node that is not the last segment.
IllegalModifier(raw) ==
    /\ IsParamNode(raw)
    /\ ParamModifier(raw) \in {"any", "many", "optional"}

\* The conflict checks with the ParamNode check left out.
NewNodeConflictLiteralOnly(t, current, raw, method) ==
    /\ IsLiteralNode(raw)
    /\ \E c \in Range(t.children[current]) :
          c = raw /\ method \in DOMAIN t.handlers[Append(current, c)]

\* The two conflict checks on a new node that takes the handler.
NewNodeConflict(t, current, raw, method) ==
    \/ /\ IsLiteralNode(raw)
       /\ \E c \in Range(t.children[current]) :
             c = raw /\ method \in DOMAIN t.handlers[Append(current, c)]
    \/ /\ IsParamNode(raw)
       /\ \E c \in Range(t.children[current]) :
             method \in DOMAIN t.handlers[Append(current, c)]

RECURSIVE BuildFrom(_, _, _, _, _, _)
\* The for loop of buildRouteTree from index i (1-based) with `current`.
BuildFrom(t, current, parts, i, method, handler) ==
    IF i > Len(parts) THEN Threw(t, "none")
    ELSE LET part == parts[i]
             last == (i = Len(parts))
             child == Append(current, part)
         IN  IF part \in Range(t.children[current])
             THEN IF last
                  THEN IF method \in DOMAIN t.handlers[child]
                       THEN Threw(t, "conflict")
                       ELSE BuildFrom(SetHandler(t, child, method, handler),
                                      child, parts, i + 1, method, handler)
                  ELSE BuildFrom(t, child, parts, i + 1, method, handler)
             ELSE IF ~last /\ IllegalModifier(part)
                  THEN Threw(t, "modifier")
                  ELSE IF last /\ NewNodeConflict(t, current, part, method)
                  THEN Threw(t, "conflict")
                  ELSE LET pushed == PushChild(t, current, part)
                           set == IF last
                                  THEN SetHandler(pushed, child, method, handler)
                                  ELSE pushed
                       IN  BuildFrom(set, child, parts, i + 1, method, handler)

\* buildRouteTree(root, path, method, handler): the tree it leaves and
\* whether it threw ("none", "conflict" or "modifier").
buildRouteTree(t, path, method, handler) ==
    IF path = <<"/">>
    THEN IF method \in DOMAIN t.handlers[RootId]
         THEN Threw(t, "conflict")
         ELSE Threw(SetHandler(t, RootId, method, handler), "none")
    ELSE BuildFrom(t, RootId, PathParts(path), 1, method, handler)

\* ------------------------------------------------------------------------
\* findRoute
\* ------------------------------------------------------------------------

\* parts.slice(i), i counted from 0 as in the code.
Slice(parts, i) == SubSeq(parts, i + 1, Len(parts))

\* The descent skips a child that has handlers, none of them for the method,
\* and no ParamNode child.
SkipInDescent(t, child, method) ==
    /\ hasHandlers(t, child)
    /\ method \notin DOMAIN t.handlers[child]
    /\ \A c \in Range(t.children[child]) : ~IsParamNode(c)

\* The fallback pass skips every child that is not an optional or any
\* ParamNode, and one that has handlers but none for the method.
SkipInFallback(t, child, raw, method) ==
    \/ ~IsParamNode(raw)
    \/ ParamModifier(raw) \notin {"optional", "any"}
    \/ (hasHandlers(t, child) /\ method \notin DOMAIN t.handlers[child])

RECURSIVE ScanChildren(_, _, _, _, _, _)
\* for (const child of current.children) of the descent, from the k-th child:
\* the first child that is not skipped and matches, or none.
ScanChildren(t, current, method, subslice, k, fallback) ==
    IF k > Len(t.children[current]) THEN [found |-> FALSE]
    ELSE LET raw == t.children[current][k]
             child == Append(current, raw)
             skip == IF fallback THEN SkipInFallback(t, child, raw, method)
                     ELSE SkipInDescent(t, child, method)
             result == matchParts(raw, subslice)
         IN  IF skip \/ ~result.ok
             THEN ScanChildren(t, current, method, subslice, k + 1, fallback)
             ELSE [found |-> TRUE, child |-> child, result |-> result]

RECURSIVE Descend(_, _, _, _, _, _)
\* while (i < parts.length) { ... }: where the descent stops.
Descend(t, method, parts, current, i, params) ==
    IF i >= Len(parts) THEN [current |-> current, i |-> i, params |-> params]
    ELSE LET hit == ScanChildren(t, current, method, Slice(parts, i), 1, FALSE)
         IN  IF ~hit.found
             THEN [current |-> current, i |-> i, params |-> params]
             ELSE Descend(t, method, parts, hit.child, i + hit.result.taken,
                          Spread(params, hit.result.params))

\* The fallback pass entered also when the node reached has a handler for
\* the method.
FallbackUnguarded(t, method, parts, at) ==
    LET hit == ScanChildren(t, at.current, method, Slice(parts, at.i), 1, TRUE)
    IN  IF ~hit.found THEN at
        ELSE [current |-> hit.child, i |-> at.i + hit.result.taken,
              params |-> Spread(at.params, hit.result.params)]

\* The place of the child with text raw in a children list.
IndexOf(list, raw) == CHOOSE k \in DOMAIN list : list[k] = raw

RECURSIVE DescentSkips(_, _, _, _, _)
\* The children the descent passes over with `continue` by the skip rule,
\* each with the i at which it was passed over: in every iteration, the
\* skipped children that come before the child that matches (all the skipped
\* children when none matches).
DescentSkips(t, method, parts, current, i) ==
    IF i >= Len(parts) THEN {}
    ELSE LET list == t.children[current]
             hit == ScanChildren(t, current, method, Slice(parts, i), 1, FALSE)
             scanned == IF hit.found THEN IndexOf(list, hit.child[Len(hit.child)]) - 1
                        ELSE Len(list)
             skipped == {[child |-> Append(current, list[k]), i |-> i] :
                            k \in {j \in 1 .. scanned :
                                      SkipInDescent(t, Append(current, list[j]), method)}}
         IN  skipped \cup
             (IF hit.found
              THEN DescentSkips(t, method, parts, hit.child, i + hit.result.taken)
              ELSE {})

RECURSIVE WhileLoop(_, _, _, _, _, _)
\* The run of while (i < parts.length) { ... } cut after `fuel` iterations:
\* "exits" with the number of iterations made and the final i, or
\* "continues" when the loop is still running at the cut.
WhileLoop(t, method, parts, current, i, fuel) ==
    IF i >= Len(parts) THEN [run |-> "exits", left |-> fuel, i |-> i]
    ELSE LET hit == ScanChildren(t, current, method, Slice(parts, i), 1, FALSE)
         IN  IF ~hit.found THEN [run |-> "exits", left |-> fuel, i |-> i]
             ELSE IF fuel = 0 THEN [run |-> "continues", left |-> 0, i |-> i]
             ELSE WhileLoop(t, method, parts, hit.child, i + hit.result.taken,
                            fuel - 1)

\* if (!current.handlers.has(method)) { one pass over the children }
Fallback(t, method, parts, at) ==
    IF method \in DOMAIN t.handlers[at.current] THEN at
    ELSE LET hit == ScanChildren(t, at.current, method, Slice(parts, at.i), 1, TRUE)
         IN  IF ~hit.found THEN at
             ELSE [current |-> hit.child, i |-> at.i + hit.result.taken,
                   params |-> Spread(at.params, hit.result.params)]

\* undefined
NotFound == [found |-> FALSE, handler |-> 0, params |-> EmptyMap]

\* findRoute(root, method, path): a FoundRoute or undefined.
findRoute(t, method, path) ==
    LET parts == PathParts(path)
        at == Fallback(t, method, parts,
                       Descend(t, method, parts, RootId, 0, EmptyMap))
    IN  IF method \in DOMAIN t.handlers[at.current]
        THEN [found |-> TRUE, handler |-> t.handlers[at.current][method],
              params |-> at.params]
        ELSE NotFound

\* ------------------------------------------------------------------------
\* The inputs of the model
\* ------------------------------------------------------------------------

\* The path "/" + segs[1] + "/" + segs[2] + ...
RECURSIVE PathOf(_)
PathOf(segs) ==
    IF Len(segs) = 0 THEN <<>> ELSE <<"/">> \o segs[1] \o PathOf(Tail(segs))

SegX == <<":", "x">>
SegXOpt == <<":", "x", "?">>
SegXAny == <<":", "x", "*">>
SegXMany == <<":", "x", "+">>

\* The patterns buildRouteTree is called with: "/", "//", "/a", "/a/b",
\* "/:x", "/:x?", "/:x*", "/:x+", "/:x/b", "/:x?/b", "/a/:x?/b", "/a/b/:x?".
Patterns ==
    { <<"/">>, <<"/", "/">>,
      PathOf(<< <<"a">> >>), PathOf(<< <<"a">>, <<"b">> >>),
      PathOf(<<SegX>>), PathOf(<<SegXOpt>>), PathOf(<<SegXAny>>), PathOf(<<SegXMany>>),
      PathOf(<<SegX, <<"b">> >>), PathOf(<<SegXOpt, <<"b">> >>),
      PathOf(<< <<"a">>, SegXOpt, <<"b">> >>),
      PathOf(<< <<"a">>, <<"b">>, SegXOpt>>) }

\* The paths findRoute is asked for: "", "/", "//", "/a", "/b", "/z", "/a/b",
\* "/a//b", "/z/b", "/a/z", "/a/b/z".
LookupPaths ==
    { <<>>, <<"/">>, <<"/", "/">>,
      PathOf(<< <<"a">> >>), PathOf(<< <<"b">> >>), PathOf(<< <<"z">> >>),
      PathOf(<< <<"a">>, <<"b">> >>), <<"/", "a", "/", "/", "b">>,
      PathOf(<< <<"z">>, <<"b">> >>), PathOf(<< <<"a">>, <<"z">> >>),
      PathOf(<< <<"a">>, <<"b">>, <<"z">> >>) }

\* ------------------------------------------------------------------------
\* State
\* ------------------------------------------------------------------------

VARIABLES
    children,    \* RouteNode.children of every node of the tree
    handlers,    \* RouteNode.handlers of every node of the tree
    nCalls,      \* number of buildRouteTree calls made so far
    lastCall,    \* the last buildRouteTree call and how it ended
    registered,  \* the calls that returned without throwing
    middleware,  \* Router.#middleware
    wrapped,     \* the wrappedHandler closure of every Router registration
    requests     \* the route() calls made so far, each with its progress

vars == <<children, handlers, nCalls, lastCall, registered, middleware, wrapped,
          requests>>

treeVars == <<children, handlers, nCalls, lastCall, registered>>

routerVars == <<middleware, wrapped, requests>>

\* The tree under #root.
Tree == [children |-> children, handlers |-> handlers]

\* new RootNode()
EmptyTree == [children |-> (RootId :> <<>>), handlers |-> (RootId :> EmptyMap)]

NoCall ==
    [path |-> <<>>, method |-> "none", handler |-> 0, threw |-> "nocall",
     created |-> {}]

Init ==
    /\ children = EmptyTree.children
    /\ handlers = EmptyTree.handlers
    /\ nCalls = 0
    /\ lastCall = NoCall
    /\ registered = {}
    /\ middleware = <<>>
    /\ wrapped = EmptyMap
    /\ requests = <<>>

\* One call buildRouteTree(root, path, method, handler) with a fresh handler.
\* A call that throws keeps what it had done to the tree before the throw.
Build(path, method) ==
    /\ nCalls < MaxRegs
    /\ UNCHANGED routerVars
    /\ LET handler == nCalls + 1
           out == buildRouteTree(Tree, path, method, handler)
           call == [path |-> path, method |-> method, handler |-> handler,
                    threw |-> out.threw,
                    created |-> (DOMAIN out.children) \ (DOMAIN children)]
       IN  /\ children' = out.children
           /\ handlers' = out.handlers
           /\ nCalls' = nCalls + 1
           /\ lastCall' = call
           /\ registered' = IF out.threw = "none"
                            THEN registered \cup {[path |-> path, method |-> method,
                                                   handler |-> handler]}
                            ELSE registered

Next == \E path \in Patterns, method \in Methods : Build(path, method)

Spec == Init /\ [][Next]_vars

\* The patterns of one segment that make siblings under the root: "/a",
\* "/b", "/z", "/:x", "/:y?".
SiblingPatterns ==
    { PathOf(<< <<"a">> >>), PathOf(<< <<"b">> >>), PathOf(<< <<"z">> >>),
      PathOf(<<SegX>>), PathOf(<< <<":", "y", "?">> >>) }

\* buildRouteTree calls that all add children to the root.
NextSiblings == \E path \in SiblingPatterns, method \in Methods : Build(path, method)

SpecSiblings == Init /\ [][NextSiblings]_vars

\* ------------------------------------------------------------------------
\* Router
\*
\* A RequestHandler closure made by reduce is the list of the stages it runs,
\* outermost first: (req, data, ctx) => ensurePromise(middleware(req, data,
\* ctx, next)) runs `middleware` and hands it `next`, the closure wrapped so
\* far.  A stage is a global middleware (id: which middleware() call added
\* it), a per-route middleware (route: the registration, id: its place in
\* the argument list) or a terminal handler.
\* ------------------------------------------------------------------------

GlobalStage(k) == [kind |-> "global", route |-> 0, id |-> k]

RouteStage(h, j) == [kind |-> "route", route |-> h, id |-> j]

HandlerStage(h) == [kind |-> "handler", route |-> h, id |-> 0]

NotFoundStage == [kind |-> "notFound", route |-> 0, id |-> 0]

\* (next, middleware) => (req, data, ctx) => ensurePromise(middleware(..., next))
Wrap(next, stage) == <<stage>> \o next

RECURSIVE Reduce(_, _)
\* Array.prototype.reduce with the callback Wrap: the array from its first
\* element to its last, the accumulator starting at `initial`.
Reduce(array, initial) ==
    IF Len(array) = 0 THEN initial
    ELSE Reduce(Tail(array), Wrap(initial, array[1]))

\* ensurePromise: a promise is returned as it is, a value is resolved.
ensurePromise(result) ==
    IF result.promise THEN result ELSE [result EXCEPT !.promise = TRUE]

NoResult == [promise |-> FALSE, from |-> [kind |-> "none", route |-> 0, id |-> 0]]

\* The routes the Router registers, get("/a"), get("/:x"), post("/a"), and
\* the requests it is asked to route, GET /a, GET /z, POST /a.
RouterRoutes ==
    { <<"get", PathOf(<< <<"a">> >>)>>, <<"get", PathOf(<<SegX>>)>>,
      <<"post", PathOf(<< <<"a">> >>)>> }

RouterRequests ==
    { <<"get", PathOf(<< <<"a">> >>)>>, <<"get", PathOf(<< <<"z">> >>)>>,
      <<"post", PathOf(<< <<"a">> >>)>> }

\* middleware() that pushes the new middleware to the end of the list.
MiddlewarePushed ==
    /\ Len(middleware) < MaxGlobal
    /\ middleware' = Append(middleware, GlobalStage(Len(middleware) + 1))
    /\ UNCHANGED <<treeVars, wrapped, requests>>

\* Router.middleware(middleware): the new middleware goes to the front.
Middleware ==
    /\ Len(middleware) < MaxGlobal
    /\ middleware' = <<GlobalStage(Len(middleware) + 1)>> \o middleware
    /\ UNCHANGED <<treeVars, wrapped, requests>>

\* The wrappedHandler of #register: the handler wrapped in the k middlewares
\* of its registration.
WrappedHandler(handler, k) ==
    Reduce([j \in 1 .. k |-> RouteStage(handler, j)], <<HandlerStage(handler)>>)

\* Router.get / post / ... (path, handler, ...middleware) through #register:
\* the handler is wrapped in its k middlewares, then buildRouteTree.
Register(path, method, k) ==
    /\ nCalls < MaxRoutes
    /\ LET handler == nCalls + 1
           wrappedHandler == WrappedHandler(handler, k)
           out == buildRouteTree(Tree, path, method, handler)
       IN  /\ wrapped' = Spread(wrapped, handler :> wrappedHandler)
           /\ children' = out.children
           /\ handlers' = out.handlers
           /\ nCalls' = nCalls + 1
           /\ lastCall' = [path |-> path, method |-> method, handler |-> handler,
                           threw |-> out.threw,
                           created |-> (DOMAIN out.children) \ (DOMAIN children)]
           /\ registered' = IF out.threw = "none"
                            THEN registered \cup {[path |-> path, method |-> method,
                                                   handler |-> handler]}
                            ELSE registered
    /\ UNCHANGED <<middleware, requests>>

\* A stage runs with the context of the latest route() call, as if the
\* context were kept in a field of the router.
RunStageSharedContext(request, callsNext, returnsPromise) ==
    LET stage == request.chain[request.pc + 1]
        own == ensurePromise([promise |-> returnsPromise, from |-> stage])
        ctx == IF requests = <<>> THEN request.ctx ELSE requests[Len(requests)].ctx
        entered == [request EXCEPT !.pc = @ + 1, !.log = Append(@, stage),
                                   !.seen = Append(@, ctx)]
    IN  IF stage.kind = "handler"
        THEN [entered EXCEPT !.state = "done", !.result = own,
                             !.handlerReturned =
                                 IF returnsPromise THEN "promise" ELSE "value"]
        ELSE IF callsNext
        THEN entered
        ELSE [entered EXCEPT !.state = "done", !.result = own, !.stopped = TRUE]

\* A stage runs, and the chain goes on to the next stage although the
\* middleware returned without calling next.
RunStageGoesOn(request, callsNext, returnsPromise) ==
    LET stage == request.chain[request.pc + 1]
        own == ensurePromise([promise |-> returnsPromise, from |-> stage])
        entered == [request EXCEPT !.pc = @ + 1, !.log = Append(@, stage),
                                   !.seen = Append(@, request.ctx)]
    IN  IF stage.kind = "handler"
        THEN [entered EXCEPT !.state = "done", !.result = own,
                             !.handlerReturned =
                                 IF returnsPromise THEN "promise" ELSE "value"]
        ELSE IF callsNext
        THEN entered
        ELSE [entered EXCEPT !.stopped = TRUE]

\* One stage of a request runs with the (req, data, ctx) it is called with:
\* it is entered in the request's log and its ctx in `seen`; a terminal
\* handler returns a value or a promise (returnsPromise), a middleware either
\* calls next (callsNext) or returns its own response.
RunStage(request, callsNext, returnsPromise) ==
    LET stage == request.chain[request.pc + 1]
        own == ensurePromise([promise |-> returnsPromise, from |-> stage])
        entered == [request EXCEPT !.pc = @ + 1, !.log = Append(@, stage),
                                   !.seen = Append(@, request.ctx)]
    IN  IF stage.kind = "handler"
        THEN [entered EXCEPT !.state = "done", !.result = own,
                             !.handlerReturned =
                                 IF returnsPromise THEN "promise" ELSE "value"]
        ELSE IF callsNext
        THEN entered
        ELSE [entered EXCEPT !.state = "done", !.result = own, !.stopped = TRUE]

\* route() that calls the chain with empty params in the context.
RouteDropsParams(method, path, callsNext, returnsPromise) ==
    /\ LET foundRoute == findRoute(Tree, method, path)
           wrappedHandler == Reduce(middleware, wrapped[foundRoute.handler])
           request == [method |-> method, path |-> path, matched |-> foundRoute.found,
                       handler |-> foundRoute.handler,
                       params |-> foundRoute.params, added |-> Len(middleware),
                       ctx |-> [method |-> method, path |-> path,
                                params |-> EmptyMap],
                       chain |-> <<>>, pc |-> 0, seen |-> <<>>,
                       log |-> <<>>, state |-> "running", stopped |-> FALSE,
                       handlerReturned |-> "nothing", result |-> NoResult]
       IN  requests' = Append(requests,
               IF foundRoute.found
               THEN RunStage([request EXCEPT !.chain = wrappedHandler],
                             callsNext, returnsPromise)
               ELSE [request EXCEPT
                        !.log = <<NotFoundStage>>, !.state = "done",
                        !.result = ensurePromise([promise |-> returnsPromise,
                                                  from |-> NotFoundStage])])
    /\ UNCHANGED <<treeVars, middleware, wrapped>>

\* route() that composes the chain around the wrappedHandler of the last
\* registration, whichever route was found.
RouteLastWrapped(method, path, callsNext, returnsPromise) ==
    /\ LET foundRoute == findRoute(Tree, method, path)
           wrappedHandler == Reduce(middleware, wrapped[Len(wrapped)])
           request == [method |-> method, path |-> path, matched |-> foundRoute.found,
                       handler |-> foundRoute.handler,
                       params |-> foundRoute.params, added |-> Len(middleware),
                       ctx |-> [method |-> method, path |-> path,
                                params |-> foundRoute.params],
                       chain |-> <<>>, pc |-> 0, seen |-> <<>>,
                       log |-> <<>>, state |-> "running", stopped |-> FALSE,
                       handlerReturned |-> "nothing", result |-> NoResult]
       IN  requests' = Append(requests,
               IF foundRoute.found
               THEN RunStage([request EXCEPT !.chain = wrappedHandler],
                             callsNext, returnsPromise)
               ELSE [request EXCEPT
                        !.log = <<NotFoundStage>>, !.state = "done",
                        !.result = ensurePromise([promise |-> returnsPromise,
                                                  from |-> NotFoundStage])])
    /\ UNCHANGED <<treeVars, middleware, wrapped>>

\* Router.route(req, data): extractRequestInfo gives (method, path).  On a
\* match the chain is composed and called, which runs its first stage; else
\* notFound() is called.  `handler` is foundRoute.handler and `added` is the
\* number of middleware() calls made before this route() call.
Route(method, path, callsNext, returnsPromise) ==
    /\ LET foundRoute == findRoute(Tree, method, path)
           wrappedHandler == Reduce(middleware, wrapped[foundRoute.handler])
           request == [method |-> method, path |-> path, matched |-> foundRoute.found,
                       handler |-> foundRoute.handler,
                       params |-> foundRoute.params, added |-> Len(middleware),
                       ctx |-> [method |-> method, path |-> path,
                                params |-> foundRoute.params],
                       chain |-> <<>>, pc |-> 0, seen |-> <<>>,
                       log |-> <<>>, state |-> "running", stopped |-> FALSE,
                       handlerReturned |-> "nothing", result |-> NoResult]
       IN  requests' = Append(requests,
               IF foundRoute.found
               THEN RunStage([request EXCEPT !.chain = wrappedHandler],
                             callsNext, returnsPromise)
               ELSE [request EXCEPT
                        !.log = <<NotFoundStage>>, !.state = "done",
                        !.result = ensurePromise([promise |-> returnsPromise,
                                                  from |-> NotFoundStage])])
    /\ UNCHANGED <<treeVars, middleware, wrapped>>

\* The stage that was handed `next` calls it: the next stage of request r
\* runs.
Invoke(r, callsNext, returnsPromise) ==
    /\ requests[r].state = "running"
    /\ requests' = [requests EXCEPT ![r] = RunStage(@, callsNext, returnsPromise)]
    /\ UNCHANGED <<treeVars, middleware, wrapped>>

NextRouter ==
    \/ Middleware
    \/ \E route \in RouterRoutes, k \in 0 .. MaxRouteMw :
          Register(route[2], route[1], k)
    \/ \E request \in RouterRequests, callsNext, returnsPromise \in BOOLEAN :
          /\ Len(requests) < MaxRequests
          /\ Route(request[1], request[2], callsNext, returnsPromise)
    \/ \E r \in DOMAIN requests, callsNext, returnsPromise \in BOOLEAN :
          Invoke(r, callsNext, returnsPromise)

SpecRouter == Init /\ [][NextRouter]_vars

\* ------------------------------------------------------------------------
\* Serving: the router configured as in the "middleware" test, two
\* middleware() calls, then get("/:x", h1, m1, m2) and get("/a", h2, m1),
\* and route() calls in flight on it.
\* ------------------------------------------------------------------------

ServeRoutes ==
    << [path |-> PathOf(<<SegX>>), method |-> "get", k |-> 2],
       [path |-> PathOf(<< <<"a">> >>), method |-> "get", k |-> 1] >>

RECURSIVE BuiltTree(_)
\* The tree after the first n registrations of ServeRoutes.
BuiltTree(n) ==
    IF n = 0 THEN EmptyTree
    ELSE LET out == buildRouteTree(BuiltTree(n - 1), ServeRoutes[n].path,
                                   ServeRoutes[n].method, n)
         IN  [children |-> out.children, handlers |-> out.handlers]

InitServe ==
    LET n == Len(ServeRoutes)
    IN  /\ children = BuiltTree(n).children
        /\ handlers = BuiltTree(n).handlers
        /\ nCalls = n
        /\ lastCall = [path |-> ServeRoutes[n].path, method |-> ServeRoutes[n].method,
                       handler |-> n, threw |-> "none",
                       created |-> (DOMAIN BuiltTree(n).children)
                                       \ (DOMAIN BuiltTree(n - 1).children)]
        /\ registered = {[path |-> ServeRoutes[h].path,
                          method |-> ServeRoutes[h].method, handler |-> h] :
                             h \in 1 .. n}
        /\ middleware = <<GlobalStage(2), GlobalStage(1)>>
        /\ wrapped = [h \in 1 .. n |-> WrappedHandler(h, ServeRoutes[h].k)]
        /\ requests = <<>>

NextServe ==
    \/ \E request \in RouterRequests, callsNext, returnsPromise \in BOOLEAN :
          /\ Len(requests) < MaxServe
          /\ Route(request[1], request[2], callsNext, returnsPromise)
    \/ \E r \in DOMAIN requests, callsNext, returnsPromise \in BOOLEAN :
          Invoke(r, callsNext, returnsPromise)

SpecServe == InitServe /\ [][NextServe]_vars

\* ------------------------------------------------------------------------
\* Vocabulary of the properties
\* ------------------------------------------------------------------------

Front(s) == SubSeq(s, 1, Len(s) - 1)

Last(s) == s[Len(s)]

\* Every call made so far returned without throwing.
AllSucceeded == Cardinality(registered) = nCalls

\* The pattern has at least one segment and all its segments are literals.
LiteralPattern(path) ==
    LET parts == PathParts(path)
    IN  Len(parts) > 0 /\ \A k \in DOMAIN parts : IsLiteralNode(parts[k])

RECURSIVE PatternMatches(_, _)
\* The path segments are an instance of the pattern segments, by the
\* modifier table: a literal is itself, singular is one segment, optional
\* zero or one, many one or more, any zero or more.
PatternMatches(pattern, parts) ==
    IF Len(pattern) = 0 THEN Len(parts) = 0
    ELSE LET seg == pattern[1]
             modifier == ParamModifier(seg)
         IN  IF IsLiteralNode(seg)
             THEN Len(parts) > 0 /\ parts[1] = seg
                  /\ PatternMatches(Tail(pattern), Tail(parts))
             ELSE IF modifier = "singular"
             THEN Len(parts) > 0 /\ PatternMatches(Tail(pattern), Tail(parts))
             ELSE IF modifier = "optional"
             THEN \/ PatternMatches(Tail(pattern), parts)
                  \/ Len(parts) > 0 /\ PatternMatches(Tail(pattern), Tail(parts))
             ELSE \E k \in (IF modifier = "many" THEN 1 ELSE 0) .. Len(parts) :
                     PatternMatches(Tail(pattern), SubSeq(parts, k + 1, Len(parts)))

\* A path that matches the pattern: every parameter segment replaced by the
\* one segment "z", which is no literal of any pattern of the model.
InstanceOf(path) ==
    LET parts == PathParts(path)
    IN  PathOf([k \in DOMAIN parts |->
                   IF IsParamNode(parts[k]) THEN <<"z">> ELSE parts[k]])

\* The answer findRoute gives when it finds handler h with no parameters.
FoundPlain(h) == [found |-> TRUE, handler |-> h, params |-> EmptyMap]

\* The tree after the step.
TreeNext == [children |-> children', handlers |-> handlers']

\* ------------------------------------------------------------------------
\* Properties
\* ------------------------------------------------------------------------

\* C1: in every tree built by successful buildRouteTree calls, a handler
\* registered for method m at a pattern of literal segments is what
\* findRoute(root, m, pattern) returns, with params = {}.
C1_LiteralRoundTrip ==
    AllSucceeded =>
        \A r \in registered :
            LiteralPattern(r.path) =>
                findRoute(Tree, r.method, r.path) = FoundPlain(r.handler)

\* C2: when the same pattern is registered for two methods, a lookup with
\* either method on a matching path returns that method's handler; and
\* findRoute(root, m, path) never returns a handler registered under another
\* method.
C2_MethodIsolation ==
    /\ AllSucceeded =>
          \A r1, r2 \in registered :
              ( /\ r1.method # r2.method
                /\ PathParts(r1.path) = PathParts(r2.path)
                /\ Len(PathParts(r1.path)) > 0 ) =>
                  LET got == findRoute(Tree, r1.method, InstanceOf(r1.path))
                  IN  got.found /\ got.handler = r1.handler
    /\ \A m \in Methods, path \in LookupPaths :
          LET got == findRoute(Tree, m, path)
          IN  got.found =>
                  \E r \in registered : r.handler = got.handler /\ r.method = m

\* C3: when a literal route and a route with a parameter are both registered
\* for method m and both match the path, findRoute returns the literal
\* route's handler and captures nothing.
C3_LiteralPrecedence ==
    AllSucceeded =>
        \A rl, rp \in registered :
            ( /\ rl.method = rp.method
              /\ LiteralPattern(rl.path)
              /\ ~LiteralPattern(rp.path)
              /\ PatternMatches(PathParts(rp.path), PathParts(rl.path)) ) =>
                findRoute(Tree, rl.method, rl.path) = FoundPlain(rl.handler)

\* The request matched a route, every stage it entered called next, and its
\* terminal handler has returned.
RanThrough(q) == q.matched /\ q.state = "done" /\ ~q.stopped

\* The per-route middleware of registration h: the stages of its wrapped
\* handler but the terminal one.
RouteStagesOf(h) == Range(wrapped[h]) \ {HandlerStage(h)}

\* C4: for a matched request whose middleware all call next, the global
\* middleware run in the order of their middleware() calls, first added
\* first, all before any per-route middleware and before the handler; every
\* stage and the handler run once; route() answers with a promise whether the
\* handler returned a value or a promise.
C4_GlobalMiddlewareOrder ==
    \A r \in DOMAIN requests :
        LET q == requests[r]
            h == Last(q.log).route
        IN  RanThrough(q) =>
              /\ Len(q.log) = q.added + Cardinality(RouteStagesOf(h)) + 1
              /\ \A i \in 1 .. q.added : q.log[i] = GlobalStage(i)
              /\ {q.log[i] : i \in q.added + 1 .. Len(q.log) - 1} = RouteStagesOf(h)
              /\ Last(q.log) = HandlerStage(h)
              /\ h = q.handler
              /\ \A i, j \in DOMAIN q.log : q.log[i] = q.log[j] => i = j
              /\ q.handlerReturned \in {"value", "promise"}
              /\ q.result = [promise |-> TRUE, from |-> HandlerStage(h)]

\* C4 witness: a request ran through two global middleware, a per-route
\* middleware and a handler that returned a plain value.
C4_Witness ==
    \E r \in DOMAIN requests :
        LET q == requests[r]
        IN  /\ RanThrough(q)
            /\ q.added = 2
            /\ Len(q.log) >= 4
            /\ q.handlerReturned = "value"

\* C5: the per-route middleware m1, ..., mk of a registration run in that
\* order, after the global middleware and before the handler.
C5_RouteMiddlewareOrder ==
    \A r \in DOMAIN requests :
        LET q == requests[r]
            h == Last(q.log).route
            k == Cardinality(RouteStagesOf(h))
        IN  RanThrough(q) =>
              /\ Len(q.log) = q.added + k + 1
              /\ \A j \in 1 .. k : q.log[q.added + j] = RouteStage(h, j)
              /\ Last(q.log) = HandlerStage(h)

\* The step is a buildRouteTree call of a pattern with at least one segment
\* whose parent node (all segments but the last) is in the tree before the
\* call and whose own node is not: the call makes the node of the last
\* segment, and it is the node that takes the handler.
MakesFinalNode ==
    LET q == PathParts(lastCall'.path)
    IN  /\ nCalls' = nCalls + 1
        /\ Len(q) > 0
        /\ Front(q) \in DOMAIN children
        /\ q \notin DOMAIN children

\* The earlier registration r and the call of the step are for the same
\* method and for two different last segments under the same parent.
SiblingOf(r, call) ==
    LET p == PathParts(r.path)
        q == PathParts(call.path)
    IN  /\ r.method = call.method
        /\ r.handler < call.handler
        /\ Len(p) > 0 /\ Len(q) > 0
        /\ Front(p) = Front(q)
        /\ Last(p) # Last(q)

\* C6, as stated: a literal last segment and a parameter last segment
\* under the same parent, registered for the same method: the second
\* registration throws a conflict, whichever of the two comes first.
C6_ConflictBothOrders ==
    \A r \in registered :
        ( /\ SiblingOf(r, lastCall)
          /\ IsLiteralNode(Last(PathParts(r.path)))
               # IsLiteralNode(Last(PathParts(lastCall.path))) ) =>
            lastCall.threw = "conflict"

\* C6, amended: with the literal registered first, the registration that
\* makes the new parameter node throws a conflict; with the parameter
\* registered first, the registration that makes the new literal node
\* returns without throwing.
C6_ConflictLiteralFirstOnly ==
    [][ \A r \in registered :
          (MakesFinalNode /\ SiblingOf(r, lastCall')) =>
            LET p == Last(PathParts(r.path))
                q == Last(PathParts(lastCall'.path))
            IN  /\ (IsLiteralNode(p) /\ IsParamNode(q)) => lastCall'.threw = "conflict"
                /\ (IsParamNode(p) /\ IsLiteralNode(q)) => lastCall'.threw = "none"
      ]_vars

\* C6 witness: a parameter route is registered, and the last call made a new
\* literal sibling for the same method and returned without throwing.
C6_Witness ==
    /\ lastCall.threw = "none"
    /\ PathParts(lastCall.path) \in lastCall.created
    /\ IsLiteralNode(Last(PathParts(lastCall.path)))
    /\ \E r \in registered :
          SiblingOf(r, lastCall) /\ IsParamNode(Last(PathParts(r.path)))

\* Some child of the parent of the call's last segment has a handler for a
\* method of the set ms.
SiblingHandles(q, ms) ==
    \E c \in Range(children[Front(q)]) :
        (DOMAIN handlers[Append(Front(q), c)]) \cap ms # {}

\* C7: the call that makes a new ParamNode for its last segment
\* throws a conflict when a child of the same parent has a handler for any
\* method.
C7_ParamExclusiveAnyMethod ==
    [][ LET q == PathParts(lastCall'.path)
        IN  ( /\ MakesFinalNode
              /\ IsParamNode(Last(q))
              /\ SiblingHandles(q, Methods) ) =>
                lastCall'.threw = "conflict"
      ]_vars

\* C8: a call for method m whose non-empty segments equal those of an earlier
\* successful registration of m throws a conflict, and findRoute keeps
\* returning the first handler.
C8_DuplicateRejected ==
    \A r \in registered :
        ( /\ r.handler < lastCall.handler
          /\ r.method = lastCall.method
          /\ PathParts(r.path) = PathParts(lastCall.path) ) =>
            /\ lastCall.threw = "conflict"
            /\ findRoute(Tree, r.method, r.path).handler = r.handler

\* C9: a pattern with a ?, + or * parameter before its last segment is
\* rejected with the modifier error in every tree, so no ParamNode with such
\* a modifier has children.
C9_ModifierPlacement ==
    /\ LET q == PathParts(lastCall.path)
       IN  (\E k \in 1 .. Len(q) - 1 : IllegalModifier(q[k])) =>
               lastCall.threw = "modifier"
    /\ \A n \in DOMAIN children :
          (n # RootId /\ IllegalModifier(Last(n))) => children[n] = <<>>

\* C10: a call that throws adds no node and sets no handler, and leaves
\* every findRoute answer as it was.
C10_FailedCallNoEffect ==
    [][ (nCalls' = nCalls + 1 /\ lastCall'.threw \in {"conflict", "modifier"}) =>
          /\ DOMAIN children' = DOMAIN children
          /\ handlers' = handlers
          /\ \A m \in Methods, path \in LookupPaths :
                findRoute(TreeNext, m, path) = findRoute(Tree, m, path)
      ]_vars

\* Other spellings of the patterns and paths of the model: "", "a/b",
\* "/a/b/", "/a//b", "//a".
Spellings ==
    Patterns \cup LookupPaths \cup
    { <<"a", "/", "b">>, <<"/", "a", "/", "b", "/">>, <<"/", "/", "a">> }

\* C11: two patterns with the same non-empty segments leave the same tree
\* (and so the same later lookups) when registered, and two paths with the
\* same non-empty segments get the same lookup result; "", "/" and "//"
\* included.
C11_SlashNormalization ==
    \A p1, p2 \in Spellings, m \in Methods :
        PathParts(p1) = PathParts(p2) =>
            /\ buildRouteTree(Tree, p1, m, nCalls + 1)
                   = buildRouteTree(Tree, p2, m, nCalls + 1)
            /\ findRoute(Tree, m, p1) = findRoute(Tree, m, p2)

\* C12: a handler registered for method m at "/" is what findRoute(root, m,
\* "/") returns, with params = {}, in every tree that has the registration.
C12_RootRoute ==
    \A r \in registered :
        r.path = <<"/">> =>
            findRoute(Tree, r.method, <<"/">>) = FoundPlain(r.handler)

\* C12 witness: the root route is registered for a method, and the root has
\* an optional or any ParamNode child with a handler for that method.
C12_Witness ==
    \E r \in registered :
        /\ r.path = <<"/">>
        /\ \E c \in Range(children[RootId]) :
              /\ IsParamNode(c)
              /\ ParamModifier(c) \in {"optional", "any"}
              /\ r.method \in DOMAIN handlers[<<c>>]

\* The nodes a looked-up path can end exactly at: the root, and the nodes
\* under it whose segments are all literals; PathOf(n) is the path.
LiteralNodes ==
    {n \in DOMAIN children : \A k \in DOMAIN n : IsLiteralNode(n[k])}

\* The ParamNode children of node n that have a handler for method m.
ParamChildrenFor(n, m) ==
    {c \in Range(children[n]) : IsParamNode(c) /\ m \in DOMAIN handlers[Append(n, c)]}

\* C13: when the path ends exactly at a node without a handler for m that
\* has a ParamNode child with a handler for m (and no second such child),
\* findRoute returns the child's handler with the parameter captured as ""
\* if the child is optional or any, and no match if it is singular or many.
C13_ZeroSegmentCaptures ==
    \A n \in LiteralNodes, m \in Methods :
        \A c \in ParamChildrenFor(n, m) :
            ( /\ m \notin DOMAIN handlers[n]
              /\ ParamChildrenFor(n, m) = {c} ) =>
                findRoute(Tree, m, PathOf(n)) =
                    IF ParamModifier(c) \in {"optional", "any"}
                    THEN [found |-> TRUE, handler |-> handlers[Append(n, c)][m],
                          params |-> (ParamName(c) :> <<>>)]
                    ELSE NotFound

\* The non-empty lists of remaining segments a node is asked to match: the
\* tails of the looked-up paths, and the upper-case segment "A".
Remaining ==
    ( {Slice(PathParts(path), i) : path \in LookupPaths, i \in 0 .. 2}
        \cup {<< <<"A">> >>, << <<"A">>, <<"b">> >>} ) \ {<<>>}

\* C14: on k >= 1 remaining segments, a literal node matches iff the first
\* segment is its text, takes 1 and captures nothing; a singular or optional
\* parameter takes 1 and captures it under its name; a many or any parameter
\* takes all k and captures them joined with "/".
C14_SegmentConsumption ==
    \A n \in (DOMAIN children) \ {RootId}, parts \in Remaining :
        LET raw == Last(n)
            result == matchParts(raw, parts)
            name == ParamName(raw)
        IN  IF IsLiteralNode(raw)
            THEN /\ result.ok <=> (parts[1] = raw)
                 /\ result.ok => (result.taken = 1 /\ result.params = EmptyMap)
            ELSE /\ result.ok
                 /\ DOMAIN result.params = {name}
                 /\ IF ParamModifier(raw) \in {"singular", "optional"}
                    THEN result.taken = 1 /\ result.params[name] = parts[1]
                    ELSE /\ result.taken = Len(parts)
                         /\ Split(result.params[name]) = parts

\* C14 witness: the tree has a literal node and a many parameter node, which
\* the lookup paths of two segments make take two segments.
C14_Witness ==
    /\ \E n \in DOMAIN children : n # RootId /\ IsLiteralNode(Last(n))
    /\ \E n \in DOMAIN children :
          /\ n # RootId
          /\ IsParamNode(Last(n)) /\ ParamModifier(Last(n)) = "many"
          /\ \E parts \in Remaining :
                Len(parts) = 2 /\ matchParts(Last(n), parts).taken = 2

\* C15: for every tree, method and path findRoute ends and gives a
\* FoundRoute or undefined.  Its while loop ends within parts.length
\* iterations, with i never beyond parts.length; matchParts is called on
\* children only, which are LiteralNodes and ParamNodes, never the RootNode.
C15_LookupNeverThrows ==
    \A m \in Methods, path \in LookupPaths :
        LET parts == PathParts(path)
            loop == WhileLoop(Tree, m, parts, RootId, 0, Len(parts))
            got == findRoute(Tree, m, path)
        IN  /\ loop.run = "exits"
            /\ loop.i <= Len(parts)
            /\ \A n \in DOMAIN children :
                  \A c \in Range(children[n]) :
                      /\ Append(n, c) \in (DOMAIN children) \ {RootId}
                      /\ IsParamNode(c) \/ IsLiteralNode(c)
            /\ \/ got = NotFound
               \/ /\ got.found
                  /\ \E r \in registered : r.handler = got.handler

\* C15 witness: a lookup of three segments whose loop makes three
\* iterations, and a lookup that ends in undefined.
C15_Witness ==
    /\ \E m \in Methods, path \in LookupPaths :
          /\ Len(PathParts(path)) = 3
          /\ WhileLoop(Tree, m, PathParts(path), RootId, 0, 3).left = 0
    /\ \E m \in Methods, path \in LookupPaths : findRoute(Tree, m, path) = NotFound

\* C20: findRoute returns a handler for (method, path) only when the whole
\* path matches the pattern the handler was registered under for that
\* method; a path with segments left over gives no match.
C20_FullPathMatch ==
    \A m \in Methods, path \in LookupPaths :
        LET got == findRoute(Tree, m, path)
        IN  got.found =>
              \E r \in registered :
                  /\ r.handler = got.handler
                  /\ r.method = m
                  /\ PatternMatches(PathParts(r.path), PathParts(path))

\* C16: route() calls notFound exactly when findRoute finds nothing, then
\* runs no middleware and no handler and returns notFound's result; on a
\* match notFound is never called and every stage gets the params findRoute
\* captured in its context.
C16_NotFoundDispatch ==
    /\ [](\A r \in DOMAIN requests :
            LET q == requests[r]
            IN  IF q.matched
                THEN /\ NotFoundStage \notin Range(q.log)
                     /\ \A k \in DOMAIN q.seen : q.seen[k].params = q.params
                ELSE /\ q.log = <<NotFoundStage>>
                     /\ q.seen = <<>>
                     /\ q.state = "done"
                     /\ q.result = [promise |-> TRUE, from |-> NotFoundStage])
    /\ [][ Len(requests') = Len(requests) + 1 =>
             LET q == Last(requests')
                 got == findRoute(Tree, q.method, q.path)
             IN  /\ q.matched <=> got.found
                 /\ got.found => (q.params = got.params /\ Len(q.seen) = 1)
       ]_vars

\* C16 witness: with a route and a global middleware registered, a request
\* that matches nothing was answered by notFound.
C16_Witness ==
    \E r \in DOMAIN requests :
        LET q == requests[r]
        IN  /\ registered # {}
            /\ middleware # <<>>
            /\ ~q.matched
            /\ q.log = <<NotFoundStage>>

\* C17: when a middleware returns without calling next, no later stage and
\* not the handler runs for that request, then or later, and the result of
\* route() is the result of that middleware.
C17_ShortCircuit ==
    /\ [](\A r \in DOMAIN requests :
            LET q == requests[r]
            IN  q.stopped =>
                  /\ q.state = "done"
                  /\ Last(q.log).kind \in {"global", "route"}
                  /\ q.log = SubSeq(q.chain, 1, Len(q.log))
                  /\ Len(q.log) < Len(q.chain)
                  /\ \A k \in DOMAIN q.log : q.log[k].kind # "handler"
                  /\ q.handlerReturned = "nothing"
                  /\ q.result = [promise |-> TRUE, from |-> Last(q.log)])
    /\ [][ \A r \in DOMAIN requests :
               requests[r].stopped => requests'[r] = requests[r] ]_vars

\* C17 witness: a per-route middleware, entered after a global middleware,
\* returned without calling next, with the handler still ahead in the chain.
C17_Witness ==
    \E r \in DOMAIN requests :
        LET q == requests[r]
        IN  /\ q.stopped
            /\ Len(q.log) >= 2
            /\ q.log[1].kind = "global"
            /\ Last(q.log).kind = "route"
            /\ Last(q.chain).kind = "handler"

\* C18: a per-route middleware runs only for requests dispatched to the
\* handler of its own registration, never for a request matched to another
\* route.
C18_RouteMiddlewareScoped ==
    \A r \in DOMAIN requests :
        LET q == requests[r]
            got == findRoute(Tree, q.method, q.path)
        IN  \A k \in DOMAIN q.log :
                q.log[k].kind \in {"route", "handler"} =>
                    /\ got.found
                    /\ q.log[k].route = got.handler

\* C18 witness: a request matched to the second registration ran that
\* registration's middleware and handler, while the first registration has
\* middleware of its own.
C18_Witness ==
    \E r \in DOMAIN requests :
        LET q == requests[r]
        IN  /\ RouteStage(2, 1) \in Range(q.log)
            /\ HandlerStage(2) \in Range(q.log)
            /\ RouteStage(1, 1) \in Range(wrapped[1])

\* global before route before handler
StageRank(stage) ==
    CASE stage.kind = "global" -> 1
      [] stage.kind = "route" -> 2
      [] stage.kind = "handler" -> 3
      [] OTHER -> 4

\* C19: with several route() calls in flight and their stages interleaved,
\* the stages of each request run in its own chain order (global, then
\* per-route, then handler, each once), every stage gets the context and
\* params of its own request, a step of one request leaves the others as
\* they are, and route() changes neither the tree nor the middleware list.
C19_RequestIndependence ==
    /\ [](\A r \in DOMAIN requests :
            LET q == requests[r]
                got == findRoute(Tree, q.method, q.path)
            IN  q.matched =>
                  /\ \A i, j \in DOMAIN q.log :
                        i < j => /\ StageRank(q.log[i]) <= StageRank(q.log[j])
                                 /\ q.log[i] # q.log[j]
                  /\ \A i \in DOMAIN q.log :
                        /\ q.log[i].kind = "global" => q.log[i] = GlobalStage(i)
                        /\ q.log[i].kind # "global" => q.log[i].route = got.handler
                  /\ Len(q.seen) = Len(q.log)
                  /\ \A i \in DOMAIN q.seen :
                        q.seen[i] = [method |-> q.method, path |-> q.path,
                                     params |-> got.params])
    /\ [][ /\ children' = children
           /\ handlers' = handlers
           /\ middleware' = middleware
           /\ \A r1, r2 \in DOMAIN requests :
                 (r1 # r2 /\ requests'[r1] # requests[r1]) =>
                     requests'[r2] = requests[r2] ]_vars

\* C19 witness: two requests matched to different routes are both in the
\* middle of their chains, each two stages in.
C19_Witness ==
    \E r1, r2 \in DOMAIN requests :
        /\ requests[r1].handler = 1 /\ requests[r2].handler = 2
        /\ requests[r1].matched /\ requests[r2].matched
        /\ requests[r1].state = "running" /\ requests[r2].state = "running"
        /\ Len(requests[r1].log) >= 2 /\ Len(requests[r2].log) >= 2

\* C21: whenever the descent skips a child by the skip rule, no handler for
\* the requested method is registered in the child's subtree on a pattern
\* that matches the remaining path.
C21_SkipLosesNoMatch ==
    \A m \in Methods, path \in LookupPaths :
        \A e \in DescentSkips(Tree, m, PathParts(path), RootId, 0) :
            ~ \E r \in registered :
                LET pattern == PathParts(r.path)
                    depth == Len(e.child)
                IN  /\ r.method = m
                    /\ Len(pattern) >= depth
                    /\ SubSeq(pattern, 1, depth) = e.child
                    /\ PatternMatches(SubSeq(pattern, depth, Len(pattern)),
                                      Slice(PathParts(path), e.i))

\* The list with its literal segments first and its parameter segments
\* after them, each group in the order of the list.
StablePartition(list) ==
    SelectSeq(list, IsLiteralNode) \o SelectSeq(list, IsParamNode)

\* C22: after every buildRouteTree call, returned or thrown, the children of
\* every node are its LiteralNodes followed by its ParamNodes, each group in
\* the order of insertion: the list of a node is the stable partition of
\* the list before the call with the child the call pushed at its end.
C22_ChildrenOrder ==
    [][ \A n \in DOMAIN children' :
          LET old == IF n \in DOMAIN children THEN children[n] ELSE <<>>
              added == Range(children'[n]) \ Range(old)
              pushed == IF added = {} THEN old
                        ELSE Append(old, CHOOSE c \in added : TRUE)
          IN  /\ Cardinality(added) <= 1
              /\ children'[n] = StablePartition(pushed)
      ]_vars

====
